---- MODULE Spec2Model ----
(***************************************************************************)
(* Model of the retrieval-and-answer engine of Pdf-Query-App:              *)
(*   backend/pdf_processor.py  PDFProcessor._create_chunks                 *)
(*   backend/query_engine.py   QueryEngine (initialize_document, query,    *)
(*                             _find_relevant_chunks, clear_document)      *)
(*                                                                         *)
(* Strings are sequences of one-character strings; Python's 0-based        *)
(* offsets are kept, so Python's text[i] is text[i + 1] here.              *)
(* Scores are exact rationals kept as integers: semantic and keyword       *)
(* scores in units of 1/60, combined scores in units of 1/600, QA          *)
(* confidences in units of 1/100.                                          *)
(***************************************************************************)
EXTENDS Integers, Sequences, FiniteSets, TLC

VARIABLES
    \* ---- PDFProcessor._create_chunks ----
    text,               \* the argument text
    chunk_size,         \* self.chunk_size
    chunk_overlap,      \* self.chunk_overlap
    start,              \* local start
    chunks,             \* local chunks (the list returned)
    windows,            \* history: <<start, end>> of every text[start:end] cut
    c_pc,               \* position in _create_chunks
    \* ---- QueryEngine ----
    document_chunks,    \* self.document_chunks (sequence of passage texts)
    chunk_embeddings,   \* self.chunk_embeddings (None or sequence of vectors)
    model_lock,         \* self._model_lock: None or the thread holding it
    pc,                 \* per thread: position in the running method
    frame,              \* per thread: the running method's locals
    result,             \* per thread: what the finished call returned
    calls,              \* per thread: service calls made by the running call
    observed,           \* per thread: the session pair query() read at line 84
    everLoaded,         \* history: some initialize_document has completed
    \* ---- ranking part of _find_relevant_chunks, on its own ----
    r_similarities,     \* similarities
    r_keyword_scores,   \* keyword_scores
    r_top_k,            \* top_k
    r_combined,         \* combined_scores
    r_relevant,         \* relevant_chunks (as <<score, idx>> pairs)
    r_pc,
    \* ---- _calculate_keyword_scores, on its own ----
    k_query,            \* query_text
    k_passage,          \* the text of the one chunk of self.document_chunks
    k_score,            \* the score returned for it (1/60), -1 before the call
    k_pc

chunkVars == <<text, chunk_size, chunk_overlap, start, chunks, windows, c_pc>>
engineVars == <<document_chunks, chunk_embeddings, model_lock, pc, frame,
                result, calls, observed, everLoaded>>
rankVars == <<r_similarities, r_keyword_scores, r_top_k, r_combined,
              r_relevant, r_pc>>
keywordVars == <<k_query, k_passage, k_score, k_pc>>
vars == <<chunkVars, engineVars, rankVars, keywordVars>>
notChunker == <<engineVars, rankVars, keywordVars>>
notEngine == <<chunkVars, rankVars, keywordVars>>
notRanking == <<engineVars, chunkVars, keywordVars>>
notKeyword == <<engineVars, chunkVars, rankVars>>

\* self.chunk_embeddings is None or an array of row vectors.
None == [is_none |-> TRUE, rows |-> <<>>]
Array(rows) == [is_none |-> FALSE, rows |-> rows]

\* self._model_lock when no thread holds it.
Unlocked == "unlocked"

Max(a, b) == IF a >= b THEN a ELSE b
Min(a, b) == IF a <= b THEN a ELSE b
SetMax(S) == CHOOSE x \in S : \A y \in S : y <= x

(***************************************************************************)
(* str helpers                                                             *)
(***************************************************************************)
Whitespace == {" ", "\n"}

RECURSIVE LStrip(_)
LStrip(s) == IF s # <<>> /\ Head(s) \in Whitespace THEN LStrip(Tail(s)) ELSE s

RECURSIVE RStrip(_)
RStrip(s) ==
    IF s # <<>> /\ s[Len(s)] \in Whitespace
    THEN RStrip(SubSeq(s, 1, Len(s) - 1))
    ELSE s

\* str.strip()
Strip(s) == RStrip(LStrip(s))

\* s[lo:hi] for 0 <= lo
Slice(s, lo, hi) == SubSeq(s, lo + 1, Min(hi, Len(s)))

\* s.rfind(ch, lo, hi) for a one-character ch and 0 <= lo, hi <= len(s)
RFind(s, ch, lo, hi) ==
    LET hits == {i \in lo .. (hi - 1) : s[i + 1] = ch}
    IN IF hits = {} THEN -1 ELSE SetMax(hits)

RECURSIVE Flatten(_)
Flatten(ss) == IF ss = <<>> THEN <<>> ELSE Head(ss) \o Flatten(Tail(ss))

(***************************************************************************)
(* PDFProcessor._create_chunks                                             *)
(***************************************************************************)
\* Bounds of the chunker's inputs.
MaxBlocks == 5
MaxIter == 6

\* the literal 200 of "end - 200"
SentenceLookback == 200

SentenceDelimiters == {".", "!", "?", "\n"}

\* A run of letters as long as the sentence look-back, so that windows longer
\* than the look-back occur.
LongRun == [i \in 1 .. SentenceLookback |-> "a"]

Blocks == {<<"a">>, <<".">>, <<" ">>, <<"\n">>, LongRun}

Texts == {Flatten(bs) : bs \in UNION {[1 .. n -> Blocks] : n \in 0 .. MaxBlocks}}

ChunkSizes == {2, 3, SentenceLookback + 1}

Overlaps == {0, 1, 2, SentenceLookback}

\* Lines 160-175: the end of the window that starts at st.
CutEnd(t, st, size) ==
    LET end == st + size
    IN IF end < Len(t)
       THEN LET search_start == Max(end - SentenceLookback, st)
                sentence_endings ==
                    {RFind(t, d, search_start, end) : d \in SentenceDelimiters}
                found == {pos \in sentence_endings : pos > search_start}
                best_end == IF found = {} THEN end ELSE SetMax(found)
            IN IF best_end > search_start THEN best_end + 1 ELSE end
       ELSE end

\* NextStart adding the overlap where the code subtracts it.
NextStartAdding(end, overlap) ==
    LET s == end + overlap IN IF s <= 0 THEN end ELSE s

\* NextStart with the fallback one character too far.
NextStartSkipping(end, overlap) ==
    LET s == end - overlap IN IF s <= 0 THEN end + 1 ELSE s + 1

\* Lines 186-190: the start of the next window.
NextStart(end, overlap) ==
    LET s == end - overlap IN IF s <= 0 THEN end ELSE s

\* Lines 152-156: the early return for a short text, else enter the loop.
CreateChunksEnter ==
    /\ c_pc = "call"
    /\ IF Len(text) <= chunk_size
       THEN /\ chunks' = <<text>>
            /\ windows' = <<<<0, Len(text)>>>>
            /\ c_pc' = "returned"
       ELSE /\ chunks' = <<>>
            /\ windows' = <<>>
            /\ c_pc' = "loop"
    /\ start' = 0
    /\ UNCHANGED <<notChunker, text, chunk_size, chunk_overlap>>

\* Lines 158-190: one evaluation of the while condition and one loop body.
CreateChunksLoop ==
    /\ c_pc = "loop"
    /\ Len(windows) < MaxIter
    /\ IF start < Len(text)
       THEN LET end == CutEnd(text, start, chunk_size)
                chunk == Strip(Slice(text, start, end))
            IN /\ chunks' = IF chunk # <<>> THEN Append(chunks, chunk) ELSE chunks
               /\ windows' = Append(windows, <<start, end>>)
               /\ IF end >= Len(text)
                  THEN /\ c_pc' = "returned"
                       /\ start' = start
                  ELSE /\ c_pc' = "loop"
                       /\ start' = NextStart(end, chunk_overlap)
       ELSE /\ c_pc' = "returned"
            /\ UNCHANGED <<start, chunks, windows>>
    /\ UNCHANGED <<notChunker, text, chunk_size, chunk_overlap>>

\* Lines 158-192 as a function: the loop from start st with the chunks cut
\* so far, given up as not returned after fuel iterations.
RECURSIVE CreateChunksFrom(_, _, _, _, _, _)
CreateChunksFrom(t, st, size, overlap, cut, fuel) ==
    IF st >= Len(t) THEN [returned |-> TRUE, chunks |-> cut]
    ELSE IF fuel = 0 THEN [returned |-> FALSE, chunks |-> cut]
    ELSE LET end == CutEnd(t, st, size)
             chunk == Strip(Slice(t, st, end))
             cut2 == IF chunk # <<>> THEN Append(cut, chunk) ELSE cut
         IN IF end >= Len(t)
            THEN [returned |-> TRUE, chunks |-> cut2]
            ELSE CreateChunksFrom(t, NextStart(end, overlap), size, overlap, cut2,
                                  fuel - 1)

\* Lines 142-192 as a function of the text and the configuration.
CreateChunks(t, size, overlap) ==
    IF Len(t) <= size
    THEN [returned |-> TRUE, chunks |-> <<t>>]
    ELSE CreateChunksFrom(t, 0, size, overlap, <<>>, MaxIter)

ChunkOff ==
    /\ text = <<>>
    /\ chunk_size = 0
    /\ chunk_overlap = 0
    /\ start = 0
    /\ chunks = <<>>
    /\ windows = <<>>
    /\ c_pc = "off"

\* Bound of the short texts on which runs with different overlaps are compared.
MaxTextLen == 6

ShortTexts == UNION {[1 .. n -> {"a", ".", " "}] : n \in 0 .. MaxTextLen}

InitShortText ==
    /\ text \in ShortTexts
    /\ chunk_size \in ChunkSizes
    /\ chunk_overlap \in {o \in Overlaps : o < chunk_size}
    /\ start = 0
    /\ chunks = <<>>
    /\ windows = <<>>
    /\ c_pc = "call"

InitChunk ==
    /\ text \in Texts
    /\ chunk_size \in ChunkSizes
    /\ chunk_overlap \in {o \in Overlaps : o < chunk_size}
    /\ start = 0
    /\ chunks = <<>>
    /\ windows = <<>>
    /\ c_pc = "call"

(***************************************************************************)
(* QueryEngine._find_relevant_chunks, lines 132-149: combine, sort, select *)
(***************************************************************************)
\* Bounds of the ranking inputs.
MaxPassages == 3
MaxTopK == 3

\* 0.7 and 0.3 in tenths; 0.1 in units of 1/600.
SemanticWeight == 7
KeywordWeight == 3
RelevanceFloor == 60

\* Component scores in units of 1/60.
SemValues == {-60, 0, 60}
KwValues == {0, 20, 60}

\* Lines 132-135: zip stops at the shorter list; idx is 0-based.
CombinedScores(similarities, keyword_scores) ==
    [k \in 1 .. Min(Len(similarities), Len(keyword_scores)) |->
        <<SemanticWeight * similarities[k] + KeywordWeight * keyword_scores[k],
          k - 1>>]

\* InsertDescending as sort(reverse=True) without the key orders: on equal
\* scores the larger idx first.
InsertDescendingByTuple(sorted, x) ==
    LET ahead == Cardinality({k \in 1 .. Len(sorted) : sorted[k][1] > x[1]})
    IN SubSeq(sorted, 1, ahead) \o <<x>> \o SubSeq(sorted, ahead + 1, Len(sorted))

\* list.sort(reverse=True, key=lambda x: x[0]) is stable: an element goes
\* behind every element whose key is not smaller.
InsertDescending(sorted, x) ==
    LET ahead == Cardinality({k \in 1 .. Len(sorted) : sorted[k][1] >= x[1]})
    IN SubSeq(sorted, 1, ahead) \o <<x>> \o SubSeq(sorted, ahead + 1, Len(sorted))

RECURSIVE SortDescendingFrom(_, _)
SortDescendingFrom(sorted, rest) ==
    IF rest = <<>> THEN sorted
    ELSE SortDescendingFrom(InsertDescending(sorted, Head(rest)), Tail(rest))

\* Line 137.
SortDescending(combined_scores) == SortDescendingFrom(<<>>, combined_scores)

\* Line 141.
AboveFloor(score) == score > RelevanceFloor

RECURSIVE FilterAboveFloor(_)
FilterAboveFloor(pairs) ==
    IF pairs = <<>> THEN <<>>
    ELSE IF AboveFloor(Head(pairs)[1])
         THEN <<Head(pairs)>> \o FilterAboveFloor(Tail(pairs))
         ELSE FilterAboveFloor(Tail(pairs))

\* Lines 139-146: walk combined_scores[:top_k], keep what is above the floor.
SelectRelevant(combined_scores, top_k) ==
    FilterAboveFloor(Slice(combined_scores, 0, top_k))

\* Lines 132-149 as one function.
RankChunks(similarities, keyword_scores, top_k) ==
    SelectRelevant(SortDescending(CombinedScores(similarities, keyword_scores)), top_k)

RankCombine ==
    /\ r_pc = "combine"
    /\ r_combined' = CombinedScores(r_similarities, r_keyword_scores)
    /\ r_pc' = "sort"
    /\ UNCHANGED <<notRanking, r_similarities, r_keyword_scores, r_top_k, r_relevant>>

RankSort ==
    /\ r_pc = "sort"
    /\ r_combined' = SortDescending(r_combined)
    /\ r_pc' = "select"
    /\ UNCHANGED <<notRanking, r_similarities, r_keyword_scores, r_top_k, r_relevant>>

RankSelect ==
    /\ r_pc = "select"
    /\ r_relevant' = SelectRelevant(r_combined, r_top_k)
    /\ r_pc' = "returned"
    /\ UNCHANGED <<notRanking, r_similarities, r_keyword_scores, r_top_k, r_combined>>

RankOff ==
    /\ r_similarities = <<>>
    /\ r_keyword_scores = <<>>
    /\ r_top_k = 0
    /\ r_combined = <<>>
    /\ r_relevant = <<>>
    /\ r_pc = "off"

InitRank ==
    /\ \E n \in 0 .. MaxPassages :
          /\ r_similarities \in [1 .. n -> SemValues]
          /\ r_keyword_scores \in [1 .. n -> KwValues]
    /\ r_top_k \in 0 .. MaxTopK
    /\ r_combined = <<>>
    /\ r_relevant = <<>>
    /\ r_pc = "combine"

(***************************************************************************)
(* QueryEngine: texts, the three services, keyword scoring                 *)
(***************************************************************************)
\* Bound of the documents loaded.
MaxChunks == 2

\* top_k: int = 5
DefaultTopK == 5

Threads == {"t1", "t2"}

\* str.lower() on the alphabet of the model's texts.
LowerChar(c) ==
    CASE c = "C" -> "c"
      [] c = "S" -> "s"
      [] OTHER -> c

Lower(s) == [k \in 1 .. Len(s) |-> LowerChar(s[k])]

\* needle in hay
Contains(hay, needle) ==
    \E k \in 0 .. (Len(hay) - Len(needle)) :
        SubSeq(hay, k + 1, k + Len(needle)) = needle

NonWordChars == Whitespace \cup SentenceDelimiters

\* set(re.findall(r'\b\w+\b', s)): the maximal runs of word characters.
WordSet(s) ==
    {SubSeq(s, a, b) : <<a, b>> \in
        {<<a, b>> \in (1 .. Len(s)) \X (1 .. Len(s)) :
            /\ a <= b
            /\ \A k \in a .. b : s[k] \notin NonWordChars
            /\ (a = 1 \/ s[a - 1] \in NonWordChars)
            /\ (b = Len(s) \/ s[b + 1] \in NonWordChars)}}

\* Passage texts and queries of the model.
CatSat == <<"C", "a", "t", " ", "s", "a", "t">>
Dog == <<"d", "o", "g">>
DogCat == <<"d", "o", "g", ".", " ", "c", "a", "t">>
QueryCat == <<"c", "a", "t">>
QuerySummary == <<"S", "u", "m", "m", "a", "r", "y">>
QueryOverview == <<"a", "n", " ", "o", "v", "e", "r", "v", "i", "e", "w">>

PassageTexts == {CatSat, Dog, DogCat}
Queries == {QueryCat, QuerySummary, QueryOverview}

\* A chunk is the dict built by extract_text_chunks; only 'text' is read here.
Chunk(t) == [text |-> t]

Docs == {[k \in 1 .. n |-> Chunk(ts[k])] :
            <<n, ts>> \in UNION {{n} \X [1 .. n -> PassageTexts] : n \in 0 .. MaxChunks}}

ConcurrentDocs == {<<Chunk(Dog)>>, <<Chunk(DogCat), Chunk(CatSat)>>}

\* The embedding service is opaque and deterministic.  It is modelled as a
\* map to unit vectors of the plane, chosen by the text's first word.
EmbeddingOf(t) ==
    LET low == Lower(t)
    IN CASE Slice(low, 0, 3) = <<"c", "a", "t">> -> <<1, 0>>
         [] Slice(low, 0, 3) = <<"d", "o", "g">> -> <<0, 1>>
         [] OTHER -> <<-1, 0>>

\* self.model.encode(texts)
Encode(texts) == [k \in 1 .. Len(texts) |-> EmbeddingOf(texts[k])]

ChunkTexts(cs) == [k \in 1 .. Len(cs) |-> cs[k].text]

\* cosine_similarity(query_embedding, chunk_embeddings)[0] in units of 1/60;
\* the vectors have norm 1.
CosineSimilarity(query_embedding, embeddings) ==
    [k \in 1 .. Len(embeddings) |->
        60 * (query_embedding[1] * embeddings[k][1]
              + query_embedding[2] * embeddings[k][2])]

\* 0.3 in units of 1/60
PhraseBoost == 18

\* CalculateKeywordScores dropping the passage words of one or two characters
\* as it drops the query's.
CalculateKeywordScoresFilteringChunkWords(query_text, cs) ==
    LET query_words == {w \in WordSet(Lower(query_text)) : Len(w) > 2}
        score(t) ==
            LET chunk_words == {w \in WordSet(Lower(t)) : Len(w) > 2}
                intersection == query_words \cap chunk_words
                union == query_words \cup chunk_words
                jaccard_score ==
                    IF union # {}
                    THEN (60 * Cardinality(intersection)) \div Cardinality(union)
                    ELSE 0
                phrase_boost ==
                    IF Contains(Lower(t), Lower(query_text)) THEN PhraseBoost ELSE 0
            IN Min(jaccard_score + phrase_boost, 60)
    IN IF query_words = {}
       THEN [k \in 1 .. Len(cs) |-> 0]
       ELSE [k \in 1 .. Len(cs) |-> score(cs[k].text)]

\* Lines 155-172, scores in units of 1/60 (every union below divides 60).
CalculateKeywordScores(query_text, cs) ==
    LET query_words == {w \in WordSet(Lower(query_text)) : Len(w) > 2}
        score(t) ==
            LET chunk_words == WordSet(Lower(t))
                intersection == query_words \cap chunk_words
                union == query_words \cup chunk_words
                jaccard_score ==
                    IF union # {}
                    THEN (60 * Cardinality(intersection)) \div Cardinality(union)
                    ELSE 0
                phrase_boost ==
                    IF Contains(Lower(t), Lower(query_text)) THEN PhraseBoost ELSE 0
            IN Min(jaccard_score + phrase_boost, 60)
    IN IF query_words = {}
       THEN [k \in 1 .. Len(cs) |-> 0]
       ELSE [k \in 1 .. Len(cs) |-> score(cs[k].text)]

\* IsSummarizeQuery without the lower().
IsSummarizeQueryCaseSensitive(query_text) ==
    \E keyword \in
        {<<"s", "u", "m", "m", "a", "r", "i", "z", "e">>,
         <<"s", "u", "m", "m", "a", "r", "y">>,
         <<"o", "v", "e", "r", "v", "i", "e", "w">>} : Contains(query_text, keyword)

\* Line 88.
SummarizeKeywords ==
    {<<"s", "u", "m", "m", "a", "r", "i", "z", "e">>,
     <<"s", "u", "m", "m", "a", "r", "y">>,
     <<"o", "v", "e", "r", "v", "i", "e", "w">>}

IsSummarizeQuery(query_text) ==
    \E keyword \in SummarizeKeywords : Contains(Lower(query_text), keyword)

\* NoDocumentLoaded looking at the embeddings alone.
NoDocumentLoadedEmbeddingsOnly(cs, embeddings) == embeddings = None

\* Line 84.
NoDocumentLoaded(cs, embeddings) == cs = <<>> \/ embeddings = None

\* The extractive-QA service is opaque: any of these results, or a failure.
\* Confidences in units of 1/100 around the 0.3 threshold.
QAScores == {29, 30}
QAAnswers == {<<>>, <<" ">>, <<"a", "b">>, <<" ", "a", "b", "c", " ">>}
QAResults == [score : QAScores, answer : QAAnswers]
ConcurrentQAResults ==
    {[score |-> 29, answer |-> <<"a", "b">>],
     [score |-> 30, answer |-> <<" ", "a", "b", "c", " ">>]}

\* 0.3 in units of 1/100, and the 3 of len(best_answer.strip()) < 3
ConfidenceThreshold == 30
MinAnswerLength == 3

\* best_score = -1, in units of 1/100
InitialBestScore == -100

\* BetterAnswer with >= for >: the last of equal confidences wins.
BetterAnswerOrEqual(score, best_score) == score >= best_score

\* Line 107.
BetterAnswer(score, best_score) == score > best_score

\* FallbackNeeded with <= for < on the confidence.
FallbackNeededInclusive(best_score, best_answer) ==
    \/ best_score <= ConfidenceThreshold
    \/ best_answer = <<>>
    \/ Len(Strip(best_answer)) < MinAnswerLength

\* Line 113.
FallbackNeeded(best_score, best_answer) ==
    \/ best_score < ConfidenceThreshold
    \/ best_answer = <<>>
    \/ Len(Strip(best_answer)) < MinAnswerLength

(***************************************************************************)
(* QueryEngine: the methods, cut into steps at the lock, at the service     *)
(* calls and at the statements that read or write the session; the reads   *)
(* of one step are taken together                                          *)
(***************************************************************************)
NoFrame ==
    [method |-> "none", chunks |-> <<>>, query_text |-> <<>>, top_k |-> 0, query_embedding |-> <<>>,
     similarities |-> <<>>, relevant_chunks |-> <<>>, examined |-> 0,
     best_score |-> InitialBestScore, best_answer |-> <<>>]

NoCalls == [encode |-> 0, summarizer |-> 0, qa |-> <<>>, failed |-> "none"]

NoResult == [outcome |-> "none", response |-> "none", answer |-> <<>>, chunks_used |-> 0]

Returned(response, answer, used) ==
    [outcome |-> "returned", response |-> response, answer |-> answer,
     chunks_used |-> used]

\* What query() read of the session at line 84.
NotSeen == [seen |-> FALSE, chunks |-> <<>>, embeddings |-> None]
Seen(cs, embeddings) == [seen |-> TRUE, chunks |-> cs, embeddings |-> embeddings]

Raised == [outcome |-> "raised", response |-> "none", answer |-> <<>>, chunks_used |-> 0]

\* Line 35: initialize_document(chunks) stores the chunks first.
InitializeDocument35(t, docs) ==
    /\ pc[t] = "idle"
    /\ \E cs \in docs :
          /\ document_chunks' = cs
          /\ frame' = [frame EXCEPT ![t] = [NoFrame EXCEPT !.method = "initialize_document", !.chunks = cs]]
    /\ pc' = [pc EXCEPT ![t] = "init_40"]
    /\ calls' = [calls EXCEPT ![t] = NoCalls]
    /\ UNCHANGED <<notEngine, chunk_embeddings, model_lock, result, observed, everLoaded>>

\* Line 40: with self._model_lock, and the call of encode at line 41.
InitializeDocument40(t) ==
    /\ pc[t] = "init_40"
    /\ model_lock = Unlocked
    /\ model_lock' = t
    /\ pc' = [pc EXCEPT ![t] = "init_41"]
    /\ calls' = [calls EXCEPT ![t].encode = @ + 1]
    /\ UNCHANGED <<notEngine, document_chunks, chunk_embeddings, frame, result, observed,
                   everLoaded>>

\* Line 41: encode returns, the embeddings are stored, the with block ends.
InitializeDocument41(t) ==
    /\ pc[t] = "init_41"
    /\ chunk_embeddings' = Array(Encode(ChunkTexts(frame[t].chunks)))
    /\ model_lock' = Unlocked
    /\ pc' = [pc EXCEPT ![t] = "done"]
    /\ result' = [result EXCEPT ![t] = Returned("none", <<>>, 0)]
    /\ everLoaded' = TRUE
    /\ UNCHANGED <<notEngine, document_chunks, frame, calls, observed>>

\* Line 41: encode raises; the with block releases the lock, lines 45-47
\* re-raise.
InitializeDocument41Raise(t) ==
    /\ pc[t] = "init_41"
    /\ model_lock' = Unlocked
    /\ pc' = [pc EXCEPT ![t] = "done"]
    /\ result' = [result EXCEPT ![t] = Raised]
    /\ calls' = [calls EXCEPT ![t].failed = "encode"]
    /\ UNCHANGED <<notEngine, document_chunks, chunk_embeddings, frame, observed, everLoaded>>

\* Line 202.
ClearDocument202(t) ==
    /\ pc[t] = "idle"
    /\ document_chunks' = <<>>
    /\ pc' = [pc EXCEPT ![t] = "clear_203"]
    /\ frame' = [frame EXCEPT ![t] = [NoFrame EXCEPT !.method = "clear_document"]]
    /\ calls' = [calls EXCEPT ![t] = NoCalls]
    /\ UNCHANGED <<notEngine, chunk_embeddings, model_lock, result, observed, everLoaded>>

\* Line 203.
ClearDocument203(t) ==
    /\ pc[t] = "clear_203"
    /\ chunk_embeddings' = None
    /\ pc' = [pc EXCEPT ![t] = "done"]
    /\ result' = [result EXCEPT ![t] = Returned("none", <<>>, 0)]
    /\ UNCHANGED <<notEngine, document_chunks, model_lock, frame, calls, observed, everLoaded>>

\* Lines 84-89: the no-document check, the summarization check and the call
\* of the summarizer.
Query84(t) ==
    /\ pc[t] = "idle"
    /\ \E q \in Queries :
          /\ frame' = [frame EXCEPT ![t] =
                          [NoFrame EXCEPT !.method = "query", !.query_text = q,
                                          !.top_k = DefaultTopK]]
          /\ IF NoDocumentLoaded(document_chunks, chunk_embeddings)
             THEN /\ pc' = [pc EXCEPT ![t] = "done"]
                  /\ result' = [result EXCEPT ![t] = Returned("NO_DOCUMENT", <<>>, 0)]
                  /\ calls' = [calls EXCEPT ![t] = NoCalls]
             ELSE IF IsSummarizeQuery(q)
             THEN /\ pc' = [pc EXCEPT ![t] = "query_90"]
                  /\ calls' = [calls EXCEPT ![t] = [NoCalls EXCEPT !.summarizer = 1]]
                  /\ UNCHANGED result
             ELSE /\ pc' = [pc EXCEPT ![t] = "find_126"]
                  /\ calls' = [calls EXCEPT ![t] = NoCalls]
                  /\ UNCHANGED result
    /\ observed' = [observed EXCEPT ![t] = Seen(document_chunks, chunk_embeddings)]
    /\ UNCHANGED <<notEngine, document_chunks, chunk_embeddings, model_lock, everLoaded>>

\* Lines 90-91: the summarizer returns.
Query90(t) ==
    /\ pc[t] = "query_90"
    /\ pc' = [pc EXCEPT ![t] = "done"]
    /\ result' = [result EXCEPT ![t] = Returned("SUMMARY", <<>>, 1)]
    /\ UNCHANGED <<notEngine, document_chunks, chunk_embeddings, model_lock, frame, calls,
                   observed, everLoaded>>

\* Line 90 raises; lines 119-121 turn it into the error response.
Query90Raise(t) ==
    /\ pc[t] = "query_90"
    /\ pc' = [pc EXCEPT ![t] = "done"]
    /\ result' = [result EXCEPT ![t] = Returned("ERROR", <<>>, 0)]
    /\ calls' = [calls EXCEPT ![t].failed = "summarizer"]
    /\ UNCHANGED <<notEngine, document_chunks, chunk_embeddings, model_lock, frame, observed,
                   everLoaded>>

\* FindRelevantChunks126 calling encode without taking the lock.
FindRelevantChunks126Unlocked(t) ==
    /\ pc[t] = "find_126"
    /\ pc' = [pc EXCEPT ![t] = "find_127"]
    /\ calls' = [calls EXCEPT ![t].encode = @ + 1]
    /\ UNCHANGED <<notEngine, document_chunks, chunk_embeddings, model_lock, frame,
                   result, observed, everLoaded>>

\* Line 126: with self._model_lock, and the call of encode at line 127.
FindRelevantChunks126(t) ==
    /\ pc[t] = "find_126"
    /\ model_lock = Unlocked
    /\ model_lock' = t
    /\ pc' = [pc EXCEPT ![t] = "find_127"]
    /\ calls' = [calls EXCEPT ![t].encode = @ + 1]
    /\ UNCHANGED <<notEngine, document_chunks, chunk_embeddings, frame, result, observed,
                   everLoaded>>

\* Line 127: encode returns and the with block ends.
FindRelevantChunks127(t) ==
    /\ pc[t] = "find_127"
    /\ model_lock' = Unlocked
    /\ frame' = [frame EXCEPT ![t].query_embedding =
                    Encode(<<frame[t].query_text>>)[1]]
    /\ pc' = [pc EXCEPT ![t] = "find_129"]
    /\ UNCHANGED <<notEngine, document_chunks, chunk_embeddings, result, calls, observed,
                   everLoaded>>

\* Line 127 raises: the with block releases the lock, lines 151-153 return [],
\* and query returns at line 96.
FindRelevantChunks127Raise(t) ==
    /\ pc[t] = "find_127"
    /\ model_lock' = Unlocked
    /\ pc' = [pc EXCEPT ![t] = "done"]
    /\ result' = [result EXCEPT ![t] = Returned("NO_RELEVANT", <<>>, 0)]
    /\ calls' = [calls EXCEPT ![t].failed = "encode"]
    /\ UNCHANGED <<notEngine, document_chunks, chunk_embeddings, frame, observed, everLoaded>>

\* Line 129: reads self.chunk_embeddings; cosine_similarity raises on None or
\* on an empty matrix, lines 151-153 return [], query returns at line 96.
FindRelevantChunks129(t) ==
    /\ pc[t] = "find_129"
    /\ IF chunk_embeddings = None \/ chunk_embeddings.rows = <<>>
       THEN /\ pc' = [pc EXCEPT ![t] = "done"]
            /\ result' = [result EXCEPT ![t] = Returned("NO_RELEVANT", <<>>, 0)]
            /\ UNCHANGED frame
       ELSE /\ pc' = [pc EXCEPT ![t] = "find_130"]
            /\ frame' = [frame EXCEPT ![t].similarities =
                            CosineSimilarity(frame[t].query_embedding, chunk_embeddings.rows)]
            /\ UNCHANGED result
    /\ UNCHANGED <<notEngine, document_chunks, chunk_embeddings, model_lock, calls, observed,
                   everLoaded>>

\* Lines 140-146: the chunks of the selected <<score, idx>> pairs.
RelevantChunks(selected, cs) ==
    [k \in 1 .. Len(selected) |->
        [text |-> cs[selected[k][2] + 1].text,
         idx |-> selected[k][2],
         relevance_score |-> selected[k][1]]]

\* Lines 130-149 and 95-101: reads self.document_chunks, scores, ranks and
\* selects; query returns at line 96 when nothing is relevant.
FindRelevantChunks130(t) ==
    /\ pc[t] = "find_130"
    /\ LET keyword_scores ==
               CalculateKeywordScores(frame[t].query_text, document_chunks)
           relevant_chunks ==
               RelevantChunks(
                   RankChunks(frame[t].similarities, keyword_scores, frame[t].top_k),
                   document_chunks)
       IN IF relevant_chunks = <<>>
          THEN /\ pc' = [pc EXCEPT ![t] = "done"]
               /\ result' = [result EXCEPT ![t] = Returned("NO_RELEVANT", <<>>, 0)]
               /\ UNCHANGED frame
          ELSE /\ pc' = [pc EXCEPT ![t] = "query_105"]
               /\ frame' = [frame EXCEPT ![t].relevant_chunks = relevant_chunks]
               /\ UNCHANGED result
    /\ UNCHANGED <<notEngine, document_chunks, chunk_embeddings, model_lock, calls, observed,
                   everLoaded>>

\* Lines 102-117: one iteration of the loop over relevant_chunks with the QA
\* service answering r; after the last one, the decision of line 113.
Query105(t, qa_results) ==
    /\ pc[t] = "query_105"
    /\ \E r \in qa_results :
          LET better == BetterAnswer(r.score, frame[t].best_score)
              best_score == IF better THEN r.score ELSE frame[t].best_score
              best_answer == IF better THEN r.answer ELSE frame[t].best_answer
              examined == frame[t].examined + 1
              n == Len(frame[t].relevant_chunks)
          IN /\ frame' = [frame EXCEPT ![t].best_score = best_score,
                                       ![t].best_answer = best_answer,
                                       ![t].examined = examined]
             /\ calls' = [calls EXCEPT ![t].qa =
                             Append(@, [idx |-> frame[t].relevant_chunks[examined].idx,
                                        score |-> r.score, answer |-> r.answer])]
             /\ IF examined < n
                THEN UNCHANGED <<pc, result>>
                ELSE /\ pc' = [pc EXCEPT ![t] = "done"]
                     /\ result' = [result EXCEPT ![t] =
                           IF FallbackNeeded(best_score, best_answer)
                           THEN Returned("FALLBACK", <<>>, n)
                           ELSE Returned("ANSWER", Strip(best_answer), n)]
    /\ UNCHANGED <<notEngine, document_chunks, chunk_embeddings, model_lock, observed, everLoaded>>

\* Line 105 raises; lines 119-121 turn it into the error response.
Query105Raise(t) ==
    /\ pc[t] = "query_105"
    /\ pc' = [pc EXCEPT ![t] = "done"]
    /\ result' = [result EXCEPT ![t] = Returned("ERROR", <<>>, 0)]
    /\ calls' = [calls EXCEPT ![t].failed = "qa"]
    /\ UNCHANGED <<notEngine, document_chunks, chunk_embeddings, model_lock, frame, observed,
                   everLoaded>>

\* The caller takes the result; the thread is free for its next call.
Return(t) ==
    /\ pc[t] = "done"
    /\ pc' = [pc EXCEPT ![t] = "idle"]
    /\ frame' = [frame EXCEPT ![t] = NoFrame]
    /\ result' = [result EXCEPT ![t] = NoResult]
    /\ calls' = [calls EXCEPT ![t] = NoCalls]
    /\ observed' = [observed EXCEPT ![t] = NotSeen]
    /\ UNCHANGED <<notEngine, document_chunks, chunk_embeddings, model_lock, everLoaded>>

EngineOff ==
    /\ document_chunks = <<>>
    /\ chunk_embeddings = None
    /\ model_lock = Unlocked
    /\ pc = [t \in Threads |-> "off"]
    /\ frame = [t \in Threads |-> NoFrame]
    /\ result = [t \in Threads |-> NoResult]
    /\ calls = [t \in Threads |-> NoCalls]
    /\ observed = [t \in Threads |-> NotSeen]
    /\ everLoaded = FALSE

\* Lines 12-22: the engine after construction.
InitEngine ==
    /\ document_chunks = <<>>
    /\ chunk_embeddings = None
    /\ model_lock = Unlocked
    /\ pc = [t \in Threads |-> "idle"]
    /\ frame = [t \in Threads |-> NoFrame]
    /\ result = [t \in Threads |-> NoResult]
    /\ calls = [t \in Threads |-> NoCalls]
    /\ observed = [t \in Threads |-> NotSeen]
    /\ everLoaded = FALSE

(***************************************************************************)
(* _calculate_keyword_scores on one query and one passage                  *)
(***************************************************************************)
\* Bound: words per query and per passage.
MaxWords == 2

Words ==
    {<<"t", "o">>, <<"c", "a", "t">>, <<"C", "a", "t">>,
     <<"c", "a", "t", "s">>, <<"d", "o", "g">>}

\* " ".join(ws)
RECURSIVE JoinWords(_)
JoinWords(ws) ==
    IF ws = <<>> THEN <<>>
    ELSE IF Len(ws) = 1 THEN ws[1]
    ELSE ws[1] \o <<" ">> \o JoinWords(Tail(ws))

Phrases == {JoinWords(ws) : ws \in UNION {[1 .. n -> Words] : n \in 0 .. MaxWords}}

\* Lines 155-172 with self.document_chunks holding the one passage.
KeywordScore ==
    /\ k_pc = "call"
    /\ k_score' = CalculateKeywordScores(k_query, <<Chunk(k_passage)>>)[1]
    /\ k_pc' = "returned"
    /\ UNCHANGED <<notKeyword, k_query, k_passage>>

KeywordOff ==
    /\ k_query = <<>>
    /\ k_passage = <<>>
    /\ k_score = -1
    /\ k_pc = "off"

InitKeyword ==
    /\ k_query \in Phrases
    /\ k_passage \in Phrases
    /\ k_score = -1
    /\ k_pc = "call"

(***************************************************************************)
(* Specifications                                                          *)
(***************************************************************************)
\* One caller at a time: every call completes before the next one starts.
Init == InitEngine /\ ChunkOff /\ RankOff /\ KeywordOff

Step(t, docs, qa_results) ==
    \/ InitializeDocument35(t, docs)
    \/ InitializeDocument40(t)
    \/ InitializeDocument41(t)
    \/ InitializeDocument41Raise(t)
    \/ ClearDocument202(t)
    \/ ClearDocument203(t)
    \/ Query84(t)
    \/ Query90(t)
    \/ Query90Raise(t)
    \/ FindRelevantChunks126(t)
    \/ FindRelevantChunks127(t)
    \/ FindRelevantChunks127Raise(t)
    \/ FindRelevantChunks129(t)
    \/ FindRelevantChunks130(t)
    \/ Query105(t, qa_results)
    \/ Query105Raise(t)
    \/ Return(t)

Next == \E t \in {"t1"} : Step(t, Docs, QAResults)

Spec == Init /\ [][Next]_vars

\* Two threads calling into the one engine.
NextConcurrent == \E t \in Threads : Step(t, ConcurrentDocs, ConcurrentQAResults)

SpecConcurrent == Init /\ [][NextConcurrent]_vars

\* _create_chunks on every text and configuration of the bounds.
InitChunker == InitChunk /\ EngineOff /\ RankOff /\ KeywordOff

NextChunker == CreateChunksEnter \/ CreateChunksLoop

SpecChunker == InitChunker /\ [][NextChunker]_vars

\* The ranking of _find_relevant_chunks on every score list of the bounds.
InitRanking == InitRank /\ EngineOff /\ ChunkOff /\ KeywordOff

NextRanking == RankCombine \/ RankSort \/ RankSelect

SpecRanking == InitRanking /\ [][NextRanking]_vars

\* _create_chunks on every short text, for comparing overlaps.
InitOverlap == InitShortText /\ EngineOff /\ RankOff /\ KeywordOff

SpecOverlap == InitOverlap /\ [][NextChunker]_vars

\* _calculate_keyword_scores on every query and passage of the bounds.
InitKeywordScore == InitKeyword /\ EngineOff /\ ChunkOff /\ RankOff

NextKeyword == KeywordScore

SpecKeyword == InitKeywordScore /\ [][NextKeyword]_vars

(***************************************************************************)
(* Properties                                                              *)
(***************************************************************************)
\* A session pair is whole: no passages and no embedding rows, or one row per
\* passage, row i being the embedding of passage i.
PairAligned(cs, embeddings) ==
    IF cs = <<>>
    THEN embeddings.rows = <<>>
    ELSE embeddings = Array(Encode(ChunkTexts(cs)))

Quiescent == \A t \in Threads : pc[t] \in {"idle", "done"}

\* C1: while initialize_document runs concurrently with query, the
\* (document_chunks, chunk_embeddings) pair a query reads is whole: the
\* embeddings are those of the passages read, never stale or missing.
C1_QuerySeesWholePair ==
    \A t \in Threads :
        (/\ observed[t].seen
         /\ \E u \in Threads \ {t} : pc[u] \in {"init_40", "init_41"})
        => PairAligned(observed[t].chunks, observed[t].embeddings)

\* C2: after any sequence of completed initialize_document, clear_document
\* and query calls, whether or not the embedding service raised, the session
\* pair is whole.
C2_SessionPairWholeAfterCalls ==
    Quiescent => PairAligned(document_chunks, chunk_embeddings)

\* C3: at most one encode call executes at any time; a thread holds the
\* model lock exactly while its encode call executes, so the lock is free
\* again after encode returned or raised, and no scoring, ranking,
\* summarization or QA step runs under the lock.
C3_EncodeSerialized ==
    /\ Cardinality({t \in Threads : pc[t] \in {"init_41", "find_127"}}) <= 1
    /\ \A t \in Threads : (model_lock = t) <=> (pc[t] \in {"init_41", "find_127"})
    /\ model_lock \in Threads \cup {Unlocked}

\* C3 witness: one thread encodes a query under the lock while the other,
\* having stored its new chunks, waits for the lock to encode them.
C3_Witness ==
    \E t, u \in Threads :
        /\ pc[t] = "find_127"
        /\ model_lock = t
        /\ pc[u] = "init_40"
        /\ document_chunks # <<>>
        /\ chunk_embeddings # None

\* C4: the start offset of _create_chunks strictly increases from one loop
\* iteration to the next (the progress that makes the loop terminate).
C4_StartStrictlyIncreases ==
    \A k \in 1 .. (Len(windows) - 1) : windows[k + 1][1] > windows[k][1]

\* C5: when _create_chunks returns, the windows text[start:end] it cut cover
\* every character position: the first starts at 0, each next one starts no
\* later than the previous one ends, the last one reaches the end of the text.
C5_WindowsCoverText ==
    c_pc = "returned" =>
        /\ windows # <<>>
        /\ windows[1][1] = 0
        /\ \A k \in 1 .. (Len(windows) - 1) : windows[k + 1][1] <= windows[k][2]
        /\ windows[Len(windows)][2] >= Len(text)
        /\ \A p \in 0 .. (Len(text) - 1) :
              \E k \in 1 .. Len(windows) : windows[k][1] <= p /\ p < windows[k][2]

\* C5 witness: a returned run of three or more windows with an overlap, one
\* of them cut at a sentence delimiter.
C5_Witness ==
    /\ c_pc = "returned"
    /\ Len(windows) >= 3
    /\ chunk_overlap > 0
    /\ \E k \in 1 .. Len(windows) :
          /\ windows[k][2] < windows[k][1] + chunk_size
          /\ windows[k][2] < Len(text)
          /\ text[windows[k][2]] \in SentenceDelimiters

\* The combined score of passage i (0-based) of the ranking inputs, units 1/600.
RankScore(i) == 7 * r_similarities[i + 1] + 3 * r_keyword_scores[i + 1]

\* The passages above the relevance floor of 0.1.
RankEligible == {i \in 0 .. (Len(r_similarities) - 1) : RankScore(i) > 60}

\* How many eligible passages come before i: a greater score, or the same
\* score and a smaller index.
RankPosition(i) ==
    Cardinality({j \in RankEligible :
        RankScore(j) > RankScore(i) \/ (RankScore(j) = RankScore(i) /\ j < i)})

\* C6: the retriever's result is the first topK of the passages whose
\* combined score is above 0.1, by score descending and index ascending on
\* equal scores.
C6_RetrieverTopK ==
    r_pc = "returned" =>
        /\ Len(r_relevant) = Min(r_top_k, Cardinality(RankEligible))
        /\ \A k \in 1 .. Len(r_relevant) :
              /\ r_relevant[k][2] \in RankEligible
              /\ RankPosition(r_relevant[k][2]) = k - 1
              /\ r_relevant[k][1] = RankScore(r_relevant[k][2])

\* C6 witness: two eligible passages tie, a third sits exactly on the floor,
\* and topK cuts the eligible ones short.
C6_Witness ==
    /\ r_pc = "returned"
    /\ r_top_k >= 1
    /\ Len(r_relevant) = r_top_k
    /\ Cardinality(RankEligible) > r_top_k
    /\ \E i, j \in RankEligible : i < j /\ RankScore(i) = RankScore(j)
    /\ \E i \in 0 .. (Len(r_similarities) - 1) : RankScore(i) = 60

\* C7: a query whose embedding, summarization or QA call failed returns the
\* error response with 0 passages used.
C7_FailureGivesErrorResponse ==
    \A t \in Threads :
        (pc[t] = "done" /\ frame[t].method = "query" /\ calls[t].failed # "none")
        => result[t] = Returned("ERROR", <<>>, 0)

\* The highest-confidence QA result, the first one on equal confidences.
BestOf(qa) ==
    LET top == SetMax({qa[k].score : k \in 1 .. Len(qa)})
        first == CHOOSE k \in 1 .. Len(qa) :
                    /\ qa[k].score = top
                    /\ \A j \in 1 .. (k - 1) : qa[j].score # top
    IN qa[first]

\* C8: a non-summarize query with n >= 1 retrieved passages, all QA calls
\* answering, ends in the fallback excerpt exactly when the best confidence
\* is below 0.3 or the best answer is empty, blank or shorter than 3
\* characters once trimmed, and else returns the trimmed best answer; either
\* way n passages are reported and QA ran once per passage in ranked order.
C8_AnswerOrFallback ==
    \A t \in Threads :
        (/\ pc[t] = "done"
         /\ frame[t].method = "query"
         /\ frame[t].relevant_chunks # <<>>
         /\ calls[t].failed = "none")
        => LET relevant == frame[t].relevant_chunks
               n == Len(relevant)
               best == BestOf(calls[t].qa)
               trimmed == Strip(best.answer)
           IN /\ Len(calls[t].qa) = n
              /\ \A k \in 1 .. n : calls[t].qa[k].idx = relevant[k].idx
              /\ \A k \in 1 .. (n - 1) :
                    relevant[k].relevance_score >= relevant[k + 1].relevance_score
              /\ result[t].outcome = "returned"
              /\ result[t].chunks_used = n
              /\ IF best.score < 30 \/ trimmed = <<>> \/ Len(trimmed) < 3
                 THEN result[t].response = "FALLBACK"
                 ELSE /\ result[t].response = "ANSWER"
                      /\ result[t].answer = trimmed

\* C8 witness: two passages examined, the best answer is a usable string
\* but its confidence is below the threshold, and the fallback is returned.
C8_Witness ==
    /\ pc["t1"] = "done"
    /\ Len(frame["t1"].relevant_chunks) = 2
    /\ Len(calls["t1"].qa) = 2
    /\ calls["t1"].failed = "none"
    /\ frame["t1"].best_score = 29
    /\ Len(Strip(frame["t1"].best_answer)) = 3
    /\ result["t1"] = Returned("FALLBACK", <<>>, 2)

\* C9: a query that finds the session without passages returns the
\* no-document message with 0 passages used and calls no service, whatever
\* the query text.
C9_NoDocumentShortCircuit ==
    \A t \in Threads :
        (observed[t].seen /\ observed[t].chunks = <<>>)
        => /\ pc[t] = "done"
           /\ result[t] = Returned("NO_DOCUMENT", <<>>, 0)
           /\ calls[t] = NoCalls

\* C9 witness: after a load and a clear, a summarize query got the
\* no-document message.
C9_Witness ==
    /\ everLoaded
    /\ document_chunks = <<>>
    /\ chunk_embeddings = None
    /\ observed["t1"].seen
    /\ frame["t1"].query_text = QuerySummary
    /\ result["t1"] = Returned("NO_DOCUMENT", <<>>, 0)

\* C10: with a document loaded, a query containing "summarize", "summary" or
\* "overview" in any letter case calls the summarizer exactly once, never
\* encode nor QA, and a summary that comes back is reported with 1 passage
\* used.
C10_SummarizeShortCircuit ==
    \A t \in Threads :
        (/\ observed[t].seen
         /\ observed[t].chunks # <<>>
         /\ observed[t].embeddings # None
         /\ frame[t].query_text \in {QuerySummary, QueryOverview})
        => /\ pc[t] \in {"query_90", "done"}
           /\ calls[t].summarizer = 1
           /\ calls[t].encode = 0
           /\ calls[t].qa = <<>>
           /\ (pc[t] = "done" /\ calls[t].failed = "none")
                 => result[t] = Returned("SUMMARY", <<>>, 1)

\* C10 witness: the capitalised "Summary" query answered over a document of
\* two passages.
C10_Witness ==
    /\ pc["t1"] = "done"
    /\ Len(document_chunks) = 2
    /\ Len(observed["t1"].chunks) = 2
    /\ frame["t1"].query_text = QuerySummary
    /\ result["t1"] = Returned("SUMMARY", <<>>, 1)

\* C14: while and after the QA loop, the answer kept as best is that of the
\* first passage, in ranked order, whose confidence is the highest seen so
\* far: an equal confidence later on does not replace it.
C14_FirstBestKept ==
    \A t \in Threads :
        (frame[t].method = "query" /\ calls[t].qa # <<>>)
        => LET qa == calls[t].qa
               top == SetMax({qa[k].score : k \in 1 .. Len(qa)})
               earliest == CHOOSE k \in 1 .. Len(qa) :
                              /\ qa[k].score = top
                              /\ \A j \in 1 .. (k - 1) : qa[j].score < top
           IN /\ frame[t].best_score = top
              /\ frame[t].best_answer = qa[earliest].answer

\* C14 witness: two passages got the same confidence with different answers
\* and the first one's answer was returned.
C14_Witness ==
    /\ pc["t1"] = "done"
    /\ Len(calls["t1"].qa) = 2
    /\ calls["t1"].qa[1].score = calls["t1"].qa[2].score
    /\ calls["t1"].qa[1].answer = <<" ", "a", "b", "c", " ">>
    /\ calls["t1"].qa[2].answer = <<"a", "b">>
    /\ result["t1"] = Returned("ANSWER", <<"a", "b", "c">>, 2)

\* C12: every chunk returned for a text longer than chunk_size has at most
\* chunk_size characters.
C12_ChunksWithinChunkSize ==
    (c_pc = "returned" /\ Len(text) > chunk_size)
    => \A k \in 1 .. Len(chunks) : Len(chunks[k]) <= chunk_size

\* The chunks _create_chunks returns for the text and chunk size of the run
\* with another overlap.
WithOverlap(o) == CreateChunks(text, chunk_size, o)

\* C13: for a fixed text and chunk size the number of chunks returned is
\* non-decreasing in the overlap.
C13_CountMonotoneInOverlap ==
    c_pc = "returned" =>
        \A o \in Overlaps :
            (chunk_overlap <= o /\ o < chunk_size /\ WithOverlap(o).returned)
            => Len(chunks) <= Len(WithOverlap(o).chunks)

\* A text without sentence delimiter and without whitespace.
PlainText(t) ==
    \A k \in 1 .. Len(t) : t[k] \notin SentenceDelimiters \cup Whitespace

\* C13 as amended: for a fixed text without sentence delimiter and without
\* whitespace, and a fixed chunk size, _create_chunks returns for every
\* overlap from 0 up to chunk_size - 1 and the number of chunks returned is
\* non-decreasing in the overlap.
C13_CountMonotoneOnPlainText ==
    (c_pc = "returned" /\ PlainText(text)) =>
        \A o \in Overlaps :
            (chunk_overlap <= o /\ o < chunk_size)
            => /\ WithOverlap(o).returned
               /\ Len(chunks) <= Len(WithOverlap(o).chunks)

\* C13 witness: a plain text longer than the chunk size for which a larger
\* overlap gives strictly more chunks.
C13_Witness ==
    /\ c_pc = "returned"
    /\ PlainText(text)
    /\ Len(text) > chunk_size
    /\ \E o \in Overlaps :
          /\ chunk_overlap < o
          /\ o < chunk_size
          /\ WithOverlap(o).returned
          /\ Len(chunks) < Len(WithOverlap(o).chunks)

\* The lowercase word tokens of a string, and those longer than two characters.
Tokens(s) == WordSet(Lower(s))

LongTokens(s) == {w \in Tokens(s) : Len(w) > 2}

\* Jaccard similarity of two sets in units of 1/60, 0 for an empty union.
Jaccard(A, B) ==
    IF A \cup B = {} THEN 0
    ELSE (60 * Cardinality(A \cap B)) \div Cardinality(A \cup B)

\* 0.3 (in 1/60) if the lowercased query occurs in the lowercased passage.
Bonus(q, p) == IF Contains(Lower(p), Lower(q)) THEN PhraseBoost ELSE 0

\* C11: the keyword score of a query and a passage is min(1, J + B), J being the
\* Jaccard similarity of the query's and the passage's lowercase tokens longer
\* than two characters, B being 0.3 if the lowercased query occurs in the
\* lowercased passage, also when the query has no token longer than two.
C11_KeywordScoreBothFiltered ==
    k_pc = "returned" =>
        k_score = Min(60, Jaccard(LongTokens(k_query), LongTokens(k_passage))
                            + Bonus(k_query, k_passage))

\* C11 as amended: the keyword score is 0 when the query has no token longer
\* than two characters; otherwise it is min(1, J + B), J being the Jaccard
\* similarity of the query's lowercase tokens longer than two characters and
\* all of the passage's lowercase tokens, B being 0.3 if the lowercased query
\* occurs in the lowercased passage.
C11_KeywordScore ==
    k_pc = "returned" =>
        k_score = IF LongTokens(k_query) = {} THEN 0
                  ELSE Min(60, Jaccard(LongTokens(k_query), Tokens(k_passage))
                                 + Bonus(k_query, k_passage))

\* C11 witness: the query "cat" scored against the passage "to cat": the
\* passage's short word counts in the union, 1/2 + 0.3.
C11_Witness ==
    /\ k_pc = "returned"
    /\ k_query = <<"c", "a", "t">>
    /\ k_passage = <<"t", "o", " ", "c", "a", "t">>
    /\ k_score = 48

====
